---- MODULE Spec2Model ----
(***************************************************************************)
(* Reading-comprehension assessment tool: the Session Orchestrator         *)
(* (src/App.tsx), the Question Engine (src/components/QuestionEngine.tsx)  *)
(* and the LLM Gateway (src/services/geminiService.ts).                    *)
(*                                                                         *)
(* The program runs on one JavaScript event loop.  An action is a handler  *)
(* run to its next await that does not settle at once: the continuation    *)
(* of a settled promise is a microtask and runs before any further user    *)
(* or network event.                                                       *)
(***************************************************************************)
EXTENDS Integers, Sequences, FiniteSets, TLC

VARIABLES
    appState,       \* App.tsx:10
    userInfo,       \* App.tsx:11
    storyData,      \* App.tsx:12
    results,        \* App.tsx:13
    finalFeedback,  \* App.tsx:14
    finalScores,    \* App.tsx:15
    readers,        \* FileReaders started by handleFileUpload, not yet loaded
    assessing,      \* startAssessment calls awaiting generateAssessment
    finishing,      \* calculateScores calls awaiting generateFinalFeedback
    answers,        \* QuestionEngine.tsx:110
    statuses,       \* QuestionEngine.tsx:111
    feedbacks,      \* QuestionEngine.tsx:112
    attempts,       \* QuestionEngine.tsx:113
    isEvaluating,   \* QuestionEngine.tsx:115
    batches,        \* handleGlobalSubmit invocations that have not returned
    lastAlert,      \* history: the alert() raised by the latest step, if any
    gatewayModule   \* which of the three geminiService definitions is linked

orchVars == <<appState, userInfo, storyData, results, finalFeedback, finalScores>>
asyncVars == <<readers, assessing, finishing>>
engineVars == <<answers, statuses, feedbacks, attempts, isEvaluating, batches>>
vars == <<orchVars, asyncVars, engineVars, lastAlert, gatewayModule>>

----------------------------------------------------------------------------
(* Bounds of the model *)

\* number of questions of the story the Question Engine is studied on
MaxQuestions == 2
\* number of questions of the story the model returns in a whole session
SessionQuestions == 1
\* cap on the Orchestrator's pending asynchronous operations (FileReaders,
\* generateAssessment calls, generateFinalFeedback calls); the code has no cap
MaxPending == 2
\* number of questions of the story whose results are aggregated
MaxResults == 3
\* cap on handleGlobalSubmit invocations in flight (the code has no cap:
\* the disabled button is what keeps it at one)
MaxBatches == 2

----------------------------------------------------------------------------
(* Values *)

\* null for an object-valued field; undefined for a string-valued one
Null == [null |-> TRUE]
Undefined == "undefined"

AppStates == {"LOGIN", "SETUP", "LOADING_STORY", "READING", "QUIZ", "RESULTS"}
QuestionStatuses == {"IDLE", "CORRECT", "INCORRECT_RETRY", "FAILED_FINAL"}
QuestionTypes == <<"LITERAL", "INFERENTIAL", "EVALUATIVE">>

\* texts a pupil can type in a name field or an answer box
NameTexts == {"", " ", "Amine"}
AnswerTexts == {" ", "a"}

\* String.prototype.trim on the texts above
Trim(s) == IF s \in {"", " "} THEN "" ELSE s

\* JavaScript truthiness of a string-or-undefined value
Truthy(v) == v \notin {Undefined, ""}

EmptyMap == <<>>
MapGet(m, k, d) == IF k \in DOMAIN m THEN m[k] ELSE d
MapSet(m, k, v) == [x \in (DOMAIN m) \cup {k} |-> IF x = k THEN v ELSE m[x]]

----------------------------------------------------------------------------
(* LLM Gateway *)

\* geminiService.ts holds three definitions of each Gateway operation; one of
\* them is linked.  On the responses modelled here each operation of the
\* first (lines 1-196) behaves as that operation of the second (198-485) or
\* of the third (486-767): its evaluateAnswer rejects on a transport error as
\* the third and copies correctAnswer as the second, its generateAssessment
\* is the second's, its generateFinalFeedback the third's.  Two are kept.
GatewayModules == {2, 3}

\* what the model SDK can do with one evaluateAnswer request; the JSON carries
\* the model's 0/1/2 score next to isCorrect (1 = partly correct)
EvalResponses ==
    { [kind |-> "transport_error"],
      [kind |-> "unparsable"],
      [kind |-> "json", isCorrect |-> TRUE,  score |-> 2, feedback |-> "Bravo",
       correctAnswer |-> "modele"],
      [kind |-> "json", isCorrect |-> FALSE, score |-> 1, feedback |-> "Relis",
       correctAnswer |-> "modele"] }

\* a promise that rejects; a promise that resolves to a string
Rejected == [rejected |-> TRUE]
Resolved(text) == [rejected |-> FALSE, text |-> text]

NeutralResult(fb) ==
    [isCorrect |-> FALSE, isIncomplete |-> FALSE, score |-> 0, feedback |-> fb,
     correctAnswer |-> ""]

\* geminiService.ts:322-436: the request is inside the outer try block
evaluateAnswer2(resp) ==
    CASE resp.kind = "transport_error" -> NeutralResult("Une petite erreur est arrivee")
      [] resp.kind = "unparsable" -> NeutralResult("Je n'ai pas compris ta reponse, relis")
      [] OTHER -> [isCorrect |-> resp.isCorrect, isIncomplete |-> FALSE,
                   score |-> resp.score,
                   feedback |-> resp.feedback, correctAnswer |-> resp.correctAnswer]

\* texts the model can put in correctAnswer: an answer, and two refusals
ModelCorrectAnswers ==
    { "modele",
      "Je ne peux pas repondre",
      "Le texte et la question ne sont pas fournis" }

\* String.prototype.toLowerCase on the texts above
ToLowerCase(s) ==
    CASE s = "Je ne peux pas repondre" -> "je ne peux pas repondre"
      [] s = "Le texte et la question ne sont pas fournis"
            -> "le texte et la question ne sont pas fournis"
      [] OTHER -> s

\* String.prototype.includes on the texts above and their lower-case forms,
\* for the phrases geminiService.ts:675-680 looks for
Includes(s, phrase) ==
    <<s, phrase>> \in
       { <<"je ne peux pas repondre", "je ne peux pas repondre">>,
         <<"Le texte et la question ne sont pas fournis", "texte">>,
         <<"Le texte et la question ne sont pas fournis", "question">>,
         <<"Le texte et la question ne sont pas fournis", "pas fournis">>,
         <<"le texte et la question ne sont pas fournis", "texte">>,
         <<"le texte et la question ne sont pas fournis", "question">>,
         <<"le texte et la question ne sont pas fournis", "pas fournis">> }

\* geminiService.ts:673-681: the test on the lower-cased correctAnswer
looksLikeRefusal(correctAnswer) ==
    LET lower == ToLowerCase(correctAnswer)
    IN \/ Includes(lower, "je ne peux pas repondre")
       \/ /\ Includes(lower, "texte")
          /\ Includes(lower, "question")
          /\ Includes(lower, "pas fournis") \/ Includes(lower, "non fournis")

\* geminiService.ts:608-710: the request is outside the try block; the
\* correctAnswer is trimmed and blanked when it looks like a refusal
evaluateAnswer3(resp) ==
    CASE resp.kind = "transport_error" -> Rejected
      [] resp.kind = "unparsable" -> NeutralResult("Je n'ai pas pu corriger ta reponse")
      [] OTHER ->
           LET correctAnswer == Trim(resp.correctAnswer)
               blanked == looksLikeRefusal(correctAnswer)
           IN [isCorrect |-> resp.isCorrect, isIncomplete |-> FALSE,
               score |-> IF resp.score >= 0 /\ resp.score <= 2 THEN resp.score ELSE 0,
               feedback |-> IF blanked /\ ~Truthy(resp.feedback)
                            THEN "Reflechis bien a ce que dit le texte"
                            ELSE resp.feedback,
               correctAnswer |-> IF blanked THEN "" ELSE correctAnswer]

evaluateAnswer(module, resp) ==
    IF module = 2 THEN evaluateAnswer2(resp) ELSE evaluateAnswer3(resp)

\* what the model SDK can do with the generateAssessment request
DenseStory(n) ==
    [content |-> "texte",
     questions |-> [i \in 1..n |->
                      [id |-> i, type |-> QuestionTypes[((i - 1) % 3) + 1]]]]

AssessResponses ==
    { [kind |-> "transport_error"],
      [kind |-> "unparsable"],
      [kind |-> "json", data |-> DenseStory(SessionQuestions)],
      [kind |-> "json", data |-> [DenseStory(SessionQuestions) EXCEPT !.content = ""]] }

\* geminiService.ts:252-315: JSON.parse(raw), no guard on content
generateAssessment2(resp) ==
    IF resp.kind = "json" THEN resp.data ELSE Rejected

\* geminiService.ts:539-602: JSON.parse(raw), then the guard on empty content
generateAssessment3(resp) ==
    IF resp.kind # "json" THEN Rejected
    ELSE IF Trim(resp.data.content) = ""
         THEN [resp.data EXCEPT !.content = "[ERREUR] Le texte n'a pas ete extrait"]
         ELSE resp.data

generateAssessment(module, resp) ==
    IF module = 3 THEN generateAssessment3(resp) ELSE generateAssessment2(resp)

\* what the model SDK can do with the generateFinalFeedback request
FinalResponses ==
    { [kind |-> "transport_error"],
      [kind |-> "text", text |-> "Bravo, continue"] }

DefaultEncouragement == "Bravo pour ton travail !"

\* geminiService.ts:740-767: no try block
generateFinalFeedback3(resp) ==
    IF resp.kind = "transport_error" THEN Rejected ELSE Resolved(resp.text)

\* geminiService.ts:439-485: try/catch with a default string
generateFinalFeedback2(resp) ==
    IF resp.kind = "text" THEN Resolved(resp.text) ELSE Resolved(DefaultEncouragement)

generateFinalFeedback(module, resp) ==
    IF module = 2 THEN generateFinalFeedback2(resp) ELSE generateFinalFeedback3(resp)

----------------------------------------------------------------------------
(* Question Engine: pure parts *)

Terminal == {"CORRECT", "FAILED_FINAL"}

\* QuestionEngine.tsx:118-123
getQuestionState(id, ans, sts, fbs, atts) ==
    [answer   |-> MapGet(ans, id, ""),
     status   |-> MapGet(sts, id, "IDLE"),
     feedback |-> MapGet(fbs, id, Null),
     attempt  |-> MapGet(atts, id, 0)]

\* QuestionEngine.tsx:37: the textarea of a finished question is disabled
isInputDisabled(status) == status \in Terminal

\* mutant of needsEvaluation: a correct question is evaluated again
needsEvaluationUnlessFailed(status) == status # "FAILED_FINAL"

\* QuestionEngine.tsx:135-138
needsEvaluation(status) == status # "CORRECT" /\ status # "FAILED_FINAL"

\* mutant of questionsToEvaluate: a question left blank is skipped
questionsToEvaluateAnswered(story, ans, sts, fbs, atts) ==
    SelectSeq(story.questions,
              LAMBDA q : LET st == getQuestionState(q.id, ans, sts, fbs, atts)
                         IN needsEvaluation(st.status) /\ Trim(st.answer) # "")

questionsToEvaluate(story, ans, sts, fbs, atts) ==
    SelectSeq(story.questions,
              LAMBDA q : needsEvaluation(getQuestionState(q.id, ans, sts, fbs, atts).status))

\* QuestionEngine.tsx:150
isRetryOf(attempt) == attempt > 0

\* mutant of answeredLocally: the answer is compared without trim()
answeredLocallyUntrimmed(answer) == answer = ""

\* QuestionEngine.tsx:153: an empty answer is handled without the Gateway
answeredLocally(answer) == Trim(answer) = ""

\* QuestionEngine.tsx:154-168
localResult(isRetry) ==
    [isCorrect |-> FALSE, isIncomplete |-> TRUE,
     feedback |-> IF isRetry THEN "Tu n'as pas repondu. Voici la reponse."
                  ELSE "Tu n'as pas repondu. Essaie d'ecrire quelque chose !",
     correctAnswer |-> Undefined]

\* mutant of needsForcedCall: the loop never asks the Gateway again
needsForcedCallNever(answer, isRetry, result) == FALSE

\* QuestionEngine.tsx:188
needsForcedCall(answer, isRetry, result) ==
    Trim(answer) = "" /\ isRetry /\ ~Truthy(result.correctAnswer)

\* mutant of statusAfter: a first wrong answer is final at once
statusAfterNoRetry(isCorrect, isRetry) ==
    IF isCorrect THEN "CORRECT" ELSE "FAILED_FINAL"

\* QuestionEngine.tsx:196-209: the status written for a result
statusAfter(isCorrect, isRetry) ==
    IF isCorrect THEN "CORRECT"
    ELSE IF ~isRetry THEN "INCORRECT_RETRY" ELSE "FAILED_FINAL"

\* mutant of attemptsAfter: every result counts as an attempt
attemptsAfterEveryResult(atts, id, isCorrect, isRetry) ==
    MapSet(atts, id, MapGet(atts, id, 0) + 1)

\* mutant of attemptsAfter: the second failure is not counted
attemptsAfterFirstOnly(atts, id, isCorrect, isRetry) ==
    IF isCorrect THEN atts ELSE MapSet(atts, id, 1)

\* QuestionEngine.tsx:196-209: the attempts map after a result
attemptsAfter(atts, id, isCorrect, isRetry) ==
    IF isCorrect THEN atts
    ELSE IF ~isRetry THEN MapSet(atts, id, 1) ELSE MapSet(atts, id, 2)

\* mutant of isAllComplete: one finished question is enough
isAllCompleteAny(story, sts) ==
    \E i \in DOMAIN story.questions :
        MapGet(sts, story.questions[i].id, Undefined) \in Terminal

\* QuestionEngine.tsx:225-228
isAllComplete(story, sts) ==
    \A i \in DOMAIN story.questions :
        MapGet(sts, story.questions[i].id, Undefined) \in Terminal

\* mutant of finalResults: the entry carries the feedback text only
finalResultsWithoutCorrectAnswer(story, ans, sts, fbs) ==
    [i \in DOMAIN story.questions |->
        LET q == story.questions[i]
            fb == MapGet(fbs, q.id, Null)
        IN [question |-> q,
            userAnswer |-> MapGet(ans, q.id, Undefined),
            isCorrect |-> MapGet(sts, q.id, Undefined) = "CORRECT",
            feedback |-> IF fb = Null THEN Undefined ELSE fb.feedback,
            correctAnswer |-> Undefined]]

\* QuestionEngine.tsx:232-243
finalResults(story, ans, sts, fbs) ==
    [i \in DOMAIN story.questions |->
        LET q == story.questions[i]
            fb == MapGet(fbs, q.id, Null)
        IN [question |-> q,
            userAnswer |-> MapGet(ans, q.id, Undefined),
            isCorrect |-> MapGet(sts, q.id, Undefined) = "CORRECT",
            feedback |-> IF fb = Null THEN Undefined ELSE fb.feedback,
            correctAnswer |-> IF fb = Null THEN Undefined ELSE fb.correctAnswer]]

----------------------------------------------------------------------------
(* Session Orchestrator: pure parts *)

\* mutant of validLogin: the names are tested without trim()
validLoginUntrimmed(info) == info.firstName # "" /\ info.lastName # ""

\* App.tsx:20
validLogin(info) == Trim(info.firstName) # "" /\ Trim(info.lastName) # ""

\* mutant of pointsOfType: every result of the type earns the point
pointsOfTypeAnyResult(quizResults, type) ==
    Cardinality({i \in DOMAIN quizResults : quizResults[i].question.type = type})

\* App.tsx:72-79: one point per correct result, bucketed by question type
pointsOfType(quizResults, type) ==
    Cardinality({i \in DOMAIN quizResults :
                    quizResults[i].isCorrect /\ quizResults[i].question.type = type})

\* App.tsx:70-82
scoresOf(quizResults) ==
    LET lit == pointsOfType(quizResults, "LITERAL")
        inf == pointsOfType(quizResults, "INFERENTIAL")
        evalScore == pointsOfType(quizResults, "EVALUATIVE")
    IN [literal |-> lit, inferential |-> inf, evaluative |-> evalScore,
        total |-> lit + inf + evalScore]

ZeroScores == [literal |-> 0, inferential |-> 0, evaluative |-> 0, total |-> 0]
EmptyUser == [firstName |-> "", lastName |-> ""]

----------------------------------------------------------------------------
(* Initial state: App.tsx:10-15, QuestionEngine.tsx:110-115 *)

Init ==
    /\ appState = "LOGIN"
    /\ userInfo = EmptyUser
    /\ storyData = Null
    /\ results = <<>>
    /\ finalFeedback = ""
    /\ finalScores = ZeroScores
    /\ readers = 0
    /\ assessing = 0
    /\ finishing = 0
    /\ answers = EmptyMap
    /\ statuses = EmptyMap
    /\ feedbacks = EmptyMap
    /\ attempts = EmptyMap
    /\ isEvaluating = FALSE
    /\ batches = <<>>
    /\ lastAlert = ""
    /\ gatewayModule \in GatewayModules

----------------------------------------------------------------------------
(* Scheduling *)

\* App.tsx:262: the Question Engine is rendered in QUIZ with a story
Mounted(state, story) == state = "QUIZ" /\ story # Null

\* useState initial values of a newly mounted Engine; an unmounted Engine has
\* no state and the continuations of its handlers no longer reach any
EngineFresh ==
    /\ answers' = EmptyMap
    /\ statuses' = EmptyMap
    /\ feedbacks' = EmptyMap
    /\ attempts' = EmptyMap
    /\ isEvaluating' = FALSE
    /\ batches' = <<>>

\* mutant of EngineFollows: the Engine's state outlives the quiz screen
EngineKept == UNCHANGED engineVars

\* the Engine keeps its state while it stays mounted
EngineFollows ==
    IF Mounted(appState, storyData) /\ Mounted(appState', storyData')
    THEN UNCHANGED engineVars
    ELSE EngineFresh

----------------------------------------------------------------------------
(* Session Orchestrator: handlers *)

\* App.tsx:185,196: the name fields of the login form
editUserInfo(first, last) ==
    /\ lastAlert' = ""
    /\ appState = "LOGIN"
    /\ userInfo' = [firstName |-> first, lastName |-> last]
    /\ userInfo' # userInfo
    /\ UNCHANGED <<appState, storyData, results, finalFeedback, finalScores,
                   asyncVars, engineVars, gatewayModule>>

\* App.tsx:18-23
handleLogin ==
    /\ lastAlert' = ""
    /\ appState = "LOGIN"
    /\ appState' = IF validLogin(userInfo) THEN "SETUP" ELSE appState
    /\ UNCHANGED <<userInfo, storyData, results, finalFeedback, finalScores,
                   asyncVars, engineVars, gatewayModule>>

\* App.tsx:25-42: the file input exists in SETUP only (App.tsx:210-226)
handleFileUpload(file) ==
    /\ lastAlert' = IF file = "text" THEN "Veuillez selectionner une image." ELSE ""
    /\ appState = "SETUP"
    /\ readers + assessing + finishing < MaxPending
    /\ readers' = IF file = "image" THEN readers + 1 ELSE readers
    /\ UNCHANGED <<orchVars, assessing, finishing, engineVars, gatewayModule>>

\* App.tsx:35-40, 44-48: reader.onloadend runs startAssessment to its await
startAssessment ==
    /\ lastAlert' = ""
    /\ readers > 0
    /\ readers' = readers - 1
    /\ assessing' = assessing + 1
    /\ appState' = "LOADING_STORY"
    /\ UNCHANGED <<userInfo, storyData, results, finalFeedback, finalScores,
                   finishing, gatewayModule>>
    /\ EngineFollows

\* mutant of assessmentSettles: the catch block does not rewind to SETUP
assessmentSettlesNoRewind(resp) ==
    /\ assessing > 0
    /\ assessing' = assessing - 1
    /\ LET data == generateAssessment(gatewayModule, resp)
       IN IF data = Rejected
          THEN /\ lastAlert' = "Erreur lors de l'analyse de l'image"
               /\ UNCHANGED <<appState, storyData>>
          ELSE /\ lastAlert' = ""
               /\ storyData' = data
               /\ appState' = "READING"
    /\ UNCHANGED <<userInfo, results, finalFeedback, finalScores,
                   readers, finishing, gatewayModule>>
    /\ EngineFollows

\* App.tsx:48-62: generateAssessment settles
assessmentSettles(resp) ==
    /\ assessing > 0
    /\ assessing' = assessing - 1
    /\ LET data == generateAssessment(gatewayModule, resp)
       IN IF data = Rejected
          THEN /\ lastAlert' = "Erreur lors de l'analyse de l'image"
               /\ appState' = "SETUP"
               /\ UNCHANGED storyData
          ELSE /\ lastAlert' = ""
               /\ storyData' = data
               /\ appState' = "READING"
    /\ UNCHANGED <<userInfo, results, finalFeedback, finalScores,
                   readers, finishing, gatewayModule>>
    /\ EngineFollows

\* App.tsx:65-67: the button exists in READING with a story (App.tsx:244)
handleReadingComplete ==
    /\ lastAlert' = ""
    /\ appState = "READING"
    /\ storyData # Null
    /\ appState' = "QUIZ"
    /\ UNCHANGED <<userInfo, storyData, results, finalFeedback, finalScores,
                   asyncVars, gatewayModule>>
    /\ EngineFollows

\* mutant of finishQuiz: RESULTS is shown before the final feedback is there
finishQuizShowsResultsAtOnce ==
    /\ lastAlert' = ""
    /\ Mounted(appState, storyData)
    /\ isAllComplete(storyData, statuses)
    /\ readers + assessing + finishing < MaxPending
    /\ LET quizResults == finalResults(storyData, answers, statuses, feedbacks)
       IN /\ finalScores' = scoresOf(quizResults)
          /\ results' = quizResults
    /\ finishing' = finishing + 1
    /\ appState' = "RESULTS"
    /\ UNCHANGED <<userInfo, storyData, finalFeedback,
                   readers, assessing, gatewayModule>>
    /\ EngineFollows

\* mutant of handleQuit: the story of the session that ended is kept
handleQuitKeepsStory(confirmed) ==
    /\ lastAlert' = ""
    /\ appState = "RESULTS"
    /\ IF confirmed
       THEN /\ userInfo' = EmptyUser
            /\ results' = <<>>
            /\ appState' = "LOGIN"
       ELSE UNCHANGED <<userInfo, results, appState>>
    /\ UNCHANGED <<storyData, finalFeedback, finalScores, asyncVars, engineVars,
                   gatewayModule>>

\* QuestionEngine.tsx:230-245 and App.tsx:69-86: "Voir mes resultats" runs
\* finishQuiz and calculateScores to the await of generateFinalFeedback
finishQuiz ==
    /\ lastAlert' = ""
    /\ Mounted(appState, storyData)
    /\ isAllComplete(storyData, statuses)
    /\ readers + assessing + finishing < MaxPending
    /\ LET quizResults == finalResults(storyData, answers, statuses, feedbacks)
       IN /\ finalScores' = scoresOf(quizResults)
          /\ results' = quizResults
    /\ finishing' = finishing + 1
    /\ UNCHANGED <<appState, userInfo, storyData, finalFeedback,
                   readers, assessing, engineVars, gatewayModule>>

\* App.tsx:86-89: generateFinalFeedback settles
finalFeedbackSettles(resp) ==
    /\ lastAlert' = ""
    /\ finishing > 0
    /\ finishing' = finishing - 1
    /\ LET r == generateFinalFeedback(gatewayModule, resp)
       IN IF r = Rejected
          THEN UNCHANGED <<appState, finalFeedback>>
          ELSE /\ finalFeedback' = r.text
               /\ appState' = "RESULTS"
    /\ UNCHANGED <<userInfo, storyData, results, finalScores,
                   readers, assessing, gatewayModule>>
    /\ EngineFollows

\* App.tsx:133-140: the button exists in RESULTS only (App.tsx:283,327)
handleQuit(confirmed) ==
    /\ lastAlert' = ""
    /\ appState = "RESULTS"
    /\ IF confirmed
       THEN /\ userInfo' = EmptyUser
            /\ storyData' = Null
            /\ results' = <<>>
            /\ appState' = "LOGIN"
       ELSE UNCHANGED <<userInfo, storyData, results, appState>>
    /\ UNCHANGED <<finalFeedback, finalScores, asyncVars, engineVars, gatewayModule>>

----------------------------------------------------------------------------
(* Question Engine: handlers *)

Pending == [pending |-> TRUE]

RemoveAt(seq, b) == [j \in 1..(Len(seq) - 1) |-> IF j < b THEN seq[j] ELSE seq[j + 1]]

\* QuestionEngine.tsx:125-127; the textarea is disabled once the question is
\* finished (QuestionEngine.tsx:37,54), never because of a running submission
handleAnswerChange(id, val) ==
    /\ lastAlert' = ""
    /\ Mounted(appState, storyData)
    /\ \E i \in DOMAIN storyData.questions : storyData.questions[i].id = id
    /\ ~isInputDisabled(getQuestionState(id, answers, statuses, feedbacks, attempts).status)
    /\ MapGet(answers, id, "") # val
    /\ answers' = MapSet(answers, id, val)
    /\ UNCHANGED <<orchVars, asyncVars, statuses, feedbacks, attempts,
                   isEvaluating, batches, gatewayModule>>

\* mutant of submitEnabled: the button is never disabled
submitAlwaysEnabled(evaluating) == TRUE

\* QuestionEngine.tsx:279-290: the submit button is rendered while the quiz is
\* not complete and is disabled while isEvaluating
submitEnabled(evaluating) == ~evaluating

\* mutant of batchEntry: the Gateway is sent an empty text, not the answer
batchEntrySendsEmpty(q, ans, sts, fbs, atts) ==
    LET st == getQuestionState(q.id, ans, sts, fbs, atts)
        isRetry == isRetryOf(st.attempt)
    IN IF answeredLocally(st.answer)
       THEN [id |-> q.id, result |-> localResult(isRetry), isRetry |-> isRetry,
             calls |-> <<>>]
       ELSE [id |-> q.id, result |-> Pending, isRetry |-> isRetry,
             calls |-> <<"">>]

\* QuestionEngine.tsx:148-173: the entry of one question in the Promise.all
batchEntry(q, ans, sts, fbs, atts) ==
    LET st == getQuestionState(q.id, ans, sts, fbs, atts)
        isRetry == isRetryOf(st.attempt)
    IN IF answeredLocally(st.answer)
       THEN [id |-> q.id, result |-> localResult(isRetry), isRetry |-> isRetry,
             calls |-> <<>>]
       ELSE [id |-> q.id, result |-> Pending, isRetry |-> isRetry,
             calls |-> <<st.answer>>]

AllSettled(entries) == \A i \in DOMAIN entries : entries[i].result # Pending

\* QuestionEngine.tsx:194-209: one result written to the local maps
applyResult(batch, id, finalResult, isRetry) ==
    [batch EXCEPT
       !.newFeedbacks = MapSet(batch.newFeedbacks, id, finalResult),
       !.newStatuses = MapSet(batch.newStatuses, id,
                              statusAfter(finalResult.isCorrect, isRetry)),
       !.newAttempts = attemptsAfter(batch.newAttempts, id,
                                     finalResult.isCorrect, isRetry),
       !.i = batch.i + 1]

\* QuestionEngine.tsx:180-210: the loop over the results, from turn batch.i to
\* its next await (pc = "awaitForce") or to its end (pc = "done")
RECURSIVE runLoop(_)
runLoop(batch) ==
    IF batch.i > Len(batch.entries)
    THEN [batch EXCEPT !.pc = "done"]
    ELSE LET e == batch.entries[batch.i]
             answer == getQuestionState(e.id, batch.answers, batch.statuses,
                                        batch.feedbacks, batch.attempts).answer
         IN IF needsForcedCall(answer, e.isRetry, e.result)
            THEN [batch EXCEPT !.pc = "awaitForce",
                               !.entries[batch.i].calls = Append(@, "")]
            ELSE runLoop(applyResult(batch, e.id, e.result, e.isRetry))

\* the handler's position after the promise it awaits has settled
afterSettled(batch) ==
    IF AllSettled(batch.entries) THEN runLoop(batch) ELSE batch

\* the handler's batch record replaces slot b, or leaves it when it returned
PutBatch(seq, b, batch) ==
    IF batch.pc = "done"
    THEN RemoveAt(seq, b)
    ELSE [seq EXCEPT ![b] = batch]

\* mutant of commit: the maps are written each time the handler stops
commitAtEveryAwait(batch) ==
    /\ statuses' = batch.newStatuses
    /\ feedbacks' = batch.newFeedbacks
    /\ attempts' = batch.newAttempts
    /\ isEvaluating' = (batch.pc # "done")

\* QuestionEngine.tsx:212-214,219-221: the three setState calls and the finally
\* block when the loop has ended; nothing while the handler still awaits
commit(batch) ==
    IF batch.pc = "done"
    THEN /\ statuses' = batch.newStatuses
         /\ feedbacks' = batch.newFeedbacks
         /\ attempts' = batch.newAttempts
         /\ isEvaluating' = FALSE
    ELSE UNCHANGED <<statuses, feedbacks, attempts, isEvaluating>>

\* mutant of batchRejects: the catch block writes the local maps built so far
batchRejectsKeepsPartial(b) ==
    /\ lastAlert' = "Une erreur est survenue lors de la validation."
    /\ isEvaluating' = FALSE
    /\ batches' = RemoveAt(batches, b)
    /\ statuses' = batches[b].newStatuses
    /\ feedbacks' = batches[b].newFeedbacks
    /\ attempts' = batches[b].newAttempts

\* mutant of batchRejects: no finally block after the catch
batchRejectsKeepsLock(b) ==
    /\ lastAlert' = "Une erreur est survenue lors de la validation."
    /\ isEvaluating' = TRUE
    /\ batches' = RemoveAt(batches, b)
    /\ UNCHANGED <<statuses, feedbacks, attempts>>

\* QuestionEngine.tsx:216-221: catch and finally of a rejected submission
batchRejects(b) ==
    /\ lastAlert' = "Une erreur est survenue lors de la validation."
    /\ isEvaluating' = FALSE
    /\ batches' = RemoveAt(batches, b)
    /\ UNCHANGED <<statuses, feedbacks, attempts>>

\* QuestionEngine.tsx:129-214: handleGlobalSubmit to its first await that does
\* not settle at once.  The handler closes over the maps of the render it was
\* created in.
handleGlobalSubmit ==
    /\ Mounted(appState, storyData)
    /\ ~isAllComplete(storyData, statuses)
    /\ submitEnabled(isEvaluating)
    /\ Len(batches) < MaxBatches
    /\ LET toEval == questionsToEvaluate(storyData, answers, statuses, feedbacks, attempts)
           entries == [i \in DOMAIN toEval |->
                          batchEntry(toEval[i], answers, statuses, feedbacks, attempts)]
           batch == afterSettled(
                     [answers |-> answers, statuses |-> statuses,
                      feedbacks |-> feedbacks, attempts |-> attempts,
                      entries |-> entries, pc |-> "awaitAll", i |-> 1,
                      newStatuses |-> statuses, newFeedbacks |-> feedbacks,
                      newAttempts |-> attempts])
       IN IF Len(toEval) = 0
          THEN UNCHANGED <<statuses, feedbacks, attempts, isEvaluating, batches>>
          ELSE IF batch.pc = "done"
               THEN /\ commit(batch)
                    /\ UNCHANGED batches
               ELSE /\ isEvaluating' = TRUE
                    /\ batches' = Append(batches, batch)
                    /\ UNCHANGED <<statuses, feedbacks, attempts>>
    /\ lastAlert' = ""
    /\ UNCHANGED <<orchVars, asyncVars, answers, gatewayModule>>

\* mutant of settle: the results are kept in the order they arrive in
settleInArrivalOrder(batch, k, r) ==
    LET first == CHOOSE j \in DOMAIN batch.entries :
                    /\ batch.entries[j].result = Pending
                    /\ \A h \in 1..(j - 1) : batch.entries[h].result # Pending
    IN [batch EXCEPT !.entries[first].result = r]

\* QuestionEngine.tsx:148-173: Promise.all keeps the value of promise k at
\* position k, and each value carries the id of its question
settle(batch, k, r) == [batch EXCEPT !.entries[k].result = r]

\* QuestionEngine.tsx:171-173: one evaluateAnswer of the Promise.all settles
evaluateSettles(b, k, resp) ==
    /\ b \in DOMAIN batches
    /\ batches[b].pc = "awaitAll"
    /\ k \in DOMAIN batches[b].entries
    /\ batches[b].entries[k].result = Pending
    /\ LET r == evaluateAnswer(gatewayModule, resp)
           batch == afterSettled(settle(batches[b], k, r))
       IN IF r = Rejected
          THEN batchRejects(b)
          ELSE /\ lastAlert' = ""
               /\ commit(batch)
               /\ batches' = PutBatch(batches, b, batch)
    /\ UNCHANGED <<orchVars, asyncVars, answers, gatewayModule>>

\* QuestionEngine.tsx:190-192: the evaluateAnswer awaited inside the loop settles
forcedCallSettles(b, resp) ==
    /\ b \in DOMAIN batches
    /\ batches[b].pc = "awaitForce"
    /\ LET e == batches[b].entries[batches[b].i]
           r == evaluateAnswer(gatewayModule, resp)
           batch == runLoop(applyResult(batches[b], e.id, r, e.isRetry))
       IN IF r = Rejected
          THEN batchRejects(b)
          ELSE /\ lastAlert' = ""
               /\ commit(batch)
               /\ batches' = PutBatch(batches, b, batch)
    /\ UNCHANGED <<orchVars, asyncVars, answers, gatewayModule>>

----------------------------------------------------------------------------
(* Specification *)

\* In a whole session the pupil types one text and the model's evaluations
\* arrive and parse; SpecEngine draws the Engine's inputs from the full sets.
SessionAnswerTexts == {"a"}
SessionEvalResponses == {r \in EvalResponses : r.kind = "json"}

Next ==
    \/ \E first \in NameTexts, last \in NameTexts : editUserInfo(first, last)
    \/ handleLogin
    \/ \E file \in {"none", "text", "image"} : handleFileUpload(file)
    \/ startAssessment
    \/ \E resp \in AssessResponses : assessmentSettles(resp)
    \/ handleReadingComplete
    \/ \E id \in 1..MaxQuestions, val \in SessionAnswerTexts : handleAnswerChange(id, val)
    \/ handleGlobalSubmit
    \/ \E b \in 1..MaxBatches, k \in 1..MaxQuestions, resp \in SessionEvalResponses :
          evaluateSettles(b, k, resp)
    \/ \E b \in 1..MaxBatches, resp \in SessionEvalResponses : forcedCallSettles(b, resp)
    \/ finishQuiz
    \/ \E resp \in FinalResponses : finalFeedbackSettles(resp)
    \/ \E confirmed \in BOOLEAN : handleQuit(confirmed)

Spec == Init /\ [][Next]_vars

\* The Question Engine on its own: the session has reached QUIZ with the story
\* of a successful generateAssessment, and only the Engine's handlers and the
\* Gateway calls they make take steps.
InitQuiz ==
    /\ appState = "QUIZ"
    /\ userInfo = [firstName |-> "Amine", lastName |-> "Amine"]
    /\ storyData = DenseStory(MaxQuestions)
    /\ results = <<>>
    /\ finalFeedback = ""
    /\ finalScores = ZeroScores
    /\ readers = 0
    /\ assessing = 0
    /\ finishing = 0
    /\ answers = EmptyMap
    /\ statuses = EmptyMap
    /\ feedbacks = EmptyMap
    /\ attempts = EmptyMap
    /\ isEvaluating = FALSE
    /\ batches = <<>>
    /\ lastAlert = ""
    /\ gatewayModule \in GatewayModules

NextEngine ==
    \/ \E id \in 1..MaxQuestions, val \in AnswerTexts : handleAnswerChange(id, val)
    \/ handleGlobalSubmit
    \/ \E b \in 1..MaxBatches, k \in 1..MaxQuestions, resp \in EvalResponses :
          evaluateSettles(b, k, resp)
    \/ \E b \in 1..MaxBatches, resp \in EvalResponses : forcedCallSettles(b, resp)

SpecEngine == InitQuiz /\ [][NextEngine]_vars

\* The quiz to its end: the Question Engine as in SpecEngine, the button
\* "Voir mes resultats" and the final feedback it asks for.
NextQuiz ==
    \/ NextEngine
    \/ finishQuiz
    \/ \E resp \in FinalResponses : finalFeedbackSettles(resp)

SpecQuiz == InitQuiz /\ [][NextQuiz]_vars

\* The quiz with a model that judges every answer wrong and gives as
\* correctAnswer an answer or a refusal.
RefusalResponses ==
    { [kind |-> "json", isCorrect |-> FALSE, score |-> 0, feedback |-> "Relis",
       correctAnswer |-> c] : c \in ModelCorrectAnswers }

NextSanitize ==
    \/ \E id \in 1..MaxQuestions : handleAnswerChange(id, "a")
    \/ handleGlobalSubmit
    \/ \E b \in 1..MaxBatches, k \in 1..MaxQuestions, resp \in RefusalResponses :
          evaluateSettles(b, k, resp)
    \/ \E b \in 1..MaxBatches, resp \in RefusalResponses : forcedCallSettles(b, resp)
    \/ finishQuiz

SpecSanitize == InitQuiz /\ [][NextSanitize]_vars

\* The end of the quiz: the session is in QUIZ with a story of MaxResults
\* questions of any types, and every question has ended: correct at once,
\* correct on the retry, or failed after the retry.  The pupil asks for the
\* results, the final feedback settles, the pupil quits.
ResultStories ==
    { [content |-> "texte",
       questions |-> [i \in 1..MaxResults |-> [id |-> i, type |-> t[i]]]] :
      t \in [1..MaxResults -> {"LITERAL", "INFERENTIAL", "EVALUATIVE"}] }

EndStates ==
    { [status |-> "CORRECT", attempt |-> 0],
      [status |-> "CORRECT", attempt |-> 1],
      [status |-> "FAILED_FINAL", attempt |-> 2] }

JsonResponse(isCorrect) ==
    CHOOSE r \in EvalResponses : r.kind = "json" /\ r.isCorrect = isCorrect

InitComplete ==
    /\ gatewayModule \in GatewayModules
    /\ appState = "QUIZ"
    /\ userInfo = [firstName |-> "Amine", lastName |-> "Amine"]
    /\ \E story \in ResultStories :
          storyData = generateAssessment(gatewayModule, [kind |-> "json", data |-> story])
    /\ results = <<>>
    /\ finalFeedback = ""
    /\ finalScores = ZeroScores
    /\ readers = 0
    /\ assessing = 0
    /\ finishing = 0
    /\ answers = [id \in 1..MaxResults |-> "a"]
    /\ \E end \in [1..MaxResults -> EndStates] :
          /\ statuses = [id \in 1..MaxResults |-> end[id].status]
          /\ attempts = [id \in {x \in 1..MaxResults : end[x].attempt > 0} |->
                           end[id].attempt]
          /\ feedbacks = [id \in 1..MaxResults |->
                            evaluateAnswer(gatewayModule,
                                           JsonResponse(end[id].status = "CORRECT"))]
    /\ isEvaluating = FALSE
    /\ batches = <<>>
    /\ lastAlert = ""

NextFinish ==
    \/ finishQuiz
    \/ \E resp \in FinalResponses : finalFeedbackSettles(resp)
    \/ \E confirmed \in BOOLEAN : handleQuit(confirmed)

SpecFinish == InitComplete /\ [][NextFinish]_vars

\* every generateFinalFeedback request that was issued settles: the SDK's
\* promise resolves or rejects
SpecFinishFair ==
    SpecFinish /\ WF_vars(\E resp \in FinalResponses : finalFeedbackSettles(resp))

----------------------------------------------------------------------------
(* Properties of the Question Engine, checked under SpecEngine *)

QuestionIds == 1..MaxQuestions

StateOf(id) == getQuestionState(id, answers, statuses, feedbacks, attempts)
StateOfNext(id) == getQuestionState(id, answers', statuses', feedbacks', attempts')

\* the same Engine instance is mounted before and after the step
EngineStays == Mounted(appState, storyData) /\ Mounted(appState', storyData')

\* the answer text of question id that the submission in flight was started
\* with; with no submission in flight, the text a submission would start with
EvaluatedAnswer(id) ==
    IF batches = <<>> THEN StateOf(id).answer ELSE MapGet(batches[1].answers, id, "")

StatusEdges ==
    { <<"IDLE", "CORRECT">>, <<"IDLE", "INCORRECT_RETRY">>,
      <<"INCORRECT_RETRY", "CORRECT">>, <<"INCORRECT_RETRY", "FAILED_FINAL">> }

\* C1: in every step of a mounted Engine, the status of every question either
\* stays as it is or moves along one of the four edges IDLE->CORRECT,
\* IDLE->INCORRECT_RETRY, INCORRECT_RETRY->CORRECT, INCORRECT_RETRY->FAILED_FINAL.
C1_StatusEdges ==
    [][EngineStays =>
         \A id \in QuestionIds :
            \/ StateOfNext(id).status = StateOf(id).status
            \/ <<StateOf(id).status, StateOfNext(id).status>> \in StatusEdges]_vars

\* C1 witness: one question failed for good after a retry while another one
\* became correct on its retry, so three of the four edges have been taken.
C1_Witness ==
    /\ \E id \in QuestionIds :
          StateOf(id).status = "FAILED_FINAL" /\ StateOf(id).attempt = 2
    /\ \E id \in QuestionIds :
          StateOf(id).status = "CORRECT" /\ StateOf(id).attempt = 1

\* C2: a submission in flight holds no entry for a question that is terminal,
\* and no step of a mounted Engine changes the status, answer, feedback or
\* attempt of a question that is CORRECT or FAILED_FINAL.
C2_TerminalAbsorption ==
    /\ [](\A b \in DOMAIN batches : \A k \in DOMAIN batches[b].entries :
              StateOf(batches[b].entries[k].id).status \notin Terminal)
    /\ [][EngineStays =>
            \A id \in QuestionIds :
               StateOf(id).status \in Terminal => StateOfNext(id) = StateOf(id)]_vars

\* C2 witness: a submission is in flight while another question is already
\* terminal.
C2_Witness ==
    /\ batches # <<>>
    /\ \E id \in QuestionIds : StateOf(id).status \in Terminal

\* a result was applied to question id in this step: every applied result
\* moves the status, and nothing else does
ResultApplied(id) == EngineStays /\ StateOfNext(id).status # StateOf(id).status

\* C3: the attempt of a question changes only when a result is applied to it;
\* a non-correct result adds exactly 1, a correct result leaves it unchanged
\* and moves the question to CORRECT; attempt is never above 2.
C3_AttemptBudget ==
    /\ [](\A id \in QuestionIds : StateOf(id).attempt \in 0..2)
    /\ [][EngineStays =>
            \A id \in QuestionIds :
               IF ResultApplied(id)
               THEN IF StateOfNext(id).feedback.isCorrect
                    THEN /\ StateOfNext(id).attempt = StateOf(id).attempt
                         /\ StateOfNext(id).status = "CORRECT"
                    ELSE StateOfNext(id).attempt = StateOf(id).attempt + 1
               ELSE StateOfNext(id).attempt = StateOf(id).attempt]_vars

\* C3 witness: one question is correct on its retry with attempt 1 and another
\* has used both attempts.
C3_Witness ==
    /\ \E id \in QuestionIds :
          /\ StateOf(id).status = "CORRECT"
          /\ StateOf(id).attempt = 1
          /\ StateOf(id).feedback.isCorrect
    /\ \E id \in QuestionIds : StateOf(id).attempt = 2

\* the submission in slot b rejects in this step
SubmissionRejects ==
    \E b \in DOMAIN batches :
       \/ \E k \in QuestionIds, resp \in EvalResponses :
             /\ evaluateSettles(b, k, resp)
             /\ evaluateAnswer(gatewayModule, resp) = Rejected
       \/ \E resp \in EvalResponses :
             /\ forcedCallSettles(b, resp)
             /\ evaluateAnswer(gatewayModule, resp) = Rejected

\* C4: when a submission rejects (a call of its Promise.all, or the call
\* awaited inside its loop), the step changes no status, feedback, attempt or
\* answer; it raises the validation alert and releases isEvaluating.
C4_RejectedBatchChangesNothing ==
    [][SubmissionRejects =>
         /\ \A id \in QuestionIds : StateOfNext(id) = StateOf(id)
         /\ lastAlert' = "Une erreur est survenue lors de la validation."
         /\ isEvaluating' = FALSE]_vars

\* C4 witness: a retry submission has just rejected: the validation alert was
\* raised, the lock is released, and the questions of the batch, one with a
\* written answer and one left blank, are still waiting for their retry.
C4_Witness ==
    /\ lastAlert = "Une erreur est survenue lors de la validation."
    /\ batches = <<>>
    /\ ~isEvaluating
    /\ \A id \in QuestionIds : StateOf(id).status = "INCORRECT_RETRY"
    /\ \E id \in QuestionIds : StateOf(id).answer = "a"
    /\ \E id \in QuestionIds : Trim(StateOf(id).answer) = ""

\* C5: at most one submission is in flight; while one is, isEvaluating holds
\* and the submit control is disabled, and the answer box of every question
\* that is not terminal still accepts an edit.
C5_OneBatchEditsOpen ==
    /\ Len(batches) <= 1
    /\ batches # <<>> =>
          /\ isEvaluating
          /\ ~submitEnabled(isEvaluating)
          /\ ~ENABLED handleGlobalSubmit
          /\ \A id \in QuestionIds :
                StateOf(id).status \notin Terminal =>
                   \E val \in AnswerTexts : ENABLED handleAnswerChange(id, val)

\* C5 witness: a submission is in flight and the pupil has edited an answer
\* since it started.
C5_Witness ==
    /\ batches # <<>>
    /\ \E id \in QuestionIds : MapGet(batches[1].answers, id, "") # StateOf(id).answer

\* handleGlobalSubmit takes the step
SubmitStep == handleGlobalSubmit

\* C6: an entry made for a blank answer on the first attempt never carries a
\* Gateway call; a result applied to an IDLE question whose evaluated answer
\* was blank moves it to INCORRECT_RETRY with attempt 1 and a feedback with
\* isIncomplete; and a first submit of blank answers only leaves no call
\* pending: it is applied in the same step.
C6_BlankFirstAttemptIsLocal ==
    /\ [](\A b \in DOMAIN batches : \A k \in DOMAIN batches[b].entries :
             LET e == batches[b].entries[k]
             IN (Trim(MapGet(batches[b].answers, e.id, "")) = "" /\ ~e.isRetry)
                   => e.calls = <<>> /\ e.result = localResult(FALSE))
    /\ [][\A id \in QuestionIds :
            (ResultApplied(id) /\ StateOf(id).status = "IDLE"
                /\ Trim(EvaluatedAnswer(id)) = "")
            => /\ StateOfNext(id).status = "INCORRECT_RETRY"
               /\ StateOfNext(id).attempt = 1
               /\ StateOfNext(id).feedback.isIncomplete]_vars
    /\ [][(SubmitStep /\ \A id \in QuestionIds :
                            StateOf(id).status = "IDLE" /\ Trim(StateOf(id).answer) = "")
            => /\ batches' = <<>>
               /\ \A id \in QuestionIds : StateOfNext(id).status = "INCORRECT_RETRY"]_vars

\* C6 witness: a whitespace-only first answer was answered locally: the
\* question waits for its retry with attempt 1 and an isIncomplete feedback,
\* next to a question whose written answer went to the Gateway.
C6_Witness ==
    /\ \E id \in QuestionIds :
          /\ StateOf(id).answer = " "
          /\ StateOf(id).status = "INCORRECT_RETRY"
          /\ StateOf(id).attempt = 1
          /\ StateOf(id).feedback = localResult(FALSE)
    /\ \E id \in QuestionIds :
          StateOf(id).feedback # Null /\ ~StateOf(id).feedback.isIncomplete

\* the submission in flight ends in this step with its results applied
CommitStep ==
    /\ EngineStays
    /\ batches # <<>>
    /\ batches' = <<>>
    /\ lastAlert' = ""

BlankRetryEntry(batch, e) == Trim(MapGet(batch.answers, e.id, "")) = "" /\ e.isRetry

\* C7: for a blank answer on the retry, the entry of the submission carries
\* at most one Gateway call, made with the empty string; when that call
\* resolves, its result is what the handler holds for the question, and what
\* the handler holds when it ends is what the question's feedback becomes; a
\* submission that is applied has made the call for every such entry, and a
\* blank retry never ends with the locally made result.
C7_BlankRetryAsksGateway ==
    /\ [](\A b \in DOMAIN batches : \A k \in DOMAIN batches[b].entries :
             LET e == batches[b].entries[k]
             IN BlankRetryEntry(batches[b], e) =>
                   /\ e.calls = IF k < batches[b].i \/ (k = batches[b].i /\ batches[b].pc = "awaitForce")
                                THEN <<"">> ELSE <<>>
                   /\ k < batches[b].i =>
                         ~MapGet(batches[b].newFeedbacks, e.id, Null).isIncomplete)
    /\ [][\A resp \in EvalResponses :
            (forcedCallSettles(1, resp) /\ evaluateAnswer(gatewayModule, resp) # Rejected)
            => LET e == batches[1].entries[batches[1].i]
               IN /\ BlankRetryEntry(batches[1], e)
                  /\ e.calls = <<"">>
                  /\ IF batches' = <<>>
                     THEN feedbacks'[e.id] = evaluateAnswer(gatewayModule, resp)
                     ELSE batches'[1].newFeedbacks[e.id] = evaluateAnswer(gatewayModule, resp)]_vars
    /\ [][CommitStep =>
            \A k \in DOMAIN batches[1].entries :
               k < batches[1].i =>
                  feedbacks'[batches[1].entries[k].id]
                     = batches[1].newFeedbacks[batches[1].entries[k].id]]_vars
    /\ [][\A id \in QuestionIds :
            (ResultApplied(id) /\ StateOf(id).status = "INCORRECT_RETRY"
                /\ Trim(EvaluatedAnswer(id)) = "")
            => ~StateOfNext(id).feedback.isIncomplete]_vars

\* C7 witness: a question left blank (whitespace) on its retry has failed for
\* good and shows the correctAnswer the Gateway returned for the empty answer.
C7_Witness ==
    \E id \in QuestionIds :
       /\ StateOf(id).answer = " "
       /\ StateOf(id).status = "FAILED_FINAL"
       /\ StateOf(id).feedback.correctAnswer = "modele"

\* a Gateway failure of evaluateAnswer: the request fails or the text is not JSON
GatewayFailures == {r \in EvalResponses : r.kind \in {"transport_error", "unparsable"}}

\* C8: evaluateAnswer never rejects: for a transport error or an unparsable
\* response the call of a submission settles with a result whose isCorrect is
\* false and whose correctAnswer is "", the submission goes on (no validation
\* alert, the other entries of the batch are kept), and the Engine never shows
\* the validation alert.
C8_EvaluateAnswerNeverRejects ==
    /\ [](lastAlert # "Une erreur est survenue lors de la validation.")
    /\ [][\A k \in QuestionIds, resp \in GatewayFailures :
            evaluateSettles(1, k, resp)
            => LET r == evaluateAnswer(gatewayModule, resp)
               IN /\ r # Rejected
                  /\ ~r.isCorrect
                  /\ r.correctAnswer = ""]_vars

----------------------------------------------------------------------------
(* Properties of the session, checked under Spec *)

AppStateEdges ==
    { <<"LOGIN", "SETUP">>, <<"SETUP", "LOADING_STORY">>,
      <<"LOADING_STORY", "READING">>, <<"LOADING_STORY", "SETUP">>,
      <<"READING", "QUIZ">>, <<"QUIZ", "RESULTS">>, <<"RESULTS", "LOGIN">> }

\* C9: in every step appState either stays as it is or moves along one of the
\* seven edges LOGIN->SETUP, SETUP->LOADING_STORY, LOADING_STORY->READING,
\* LOADING_STORY->SETUP, READING->QUIZ, QUIZ->RESULTS, RESULTS->LOGIN.
C9_AppStateEdges ==
    [][appState' = appState \/ <<appState, appState'>> \in AppStateEdges]_vars

\* generateAssessment fails in this step while the session is in LOADING_STORY
AssessmentFails ==
    /\ appState = "LOADING_STORY"
    /\ \E resp \in AssessResponses :
          /\ assessmentSettles(resp)
          /\ generateAssessment(gatewayModule, resp) = Rejected

\* C10: when generateAssessment fails while appState is LOADING_STORY, the step
\* sets appState to SETUP, leaves storyData as it was (the failed attempt
\* stores none) and leaves userInfo as it was.
C10_AssessmentFailureRewinds ==
    [][AssessmentFails =>
         /\ appState' = "SETUP"
         /\ storyData' = storyData
         /\ userInfo' = userInfo]_vars

\* C10 witness: the analysis alert has just been raised for a logged-in pupil:
\* the session is back in SETUP with no story and the names that were entered.
C10_Witness ==
    /\ lastAlert = "Erreur lors de l'analyse de l'image"
    /\ appState = "SETUP"
    /\ storyData = Null
    /\ validLogin(userInfo)
    /\ assessing = 0

\* C11: once storyData is set and the session is in READING, QUIZ or RESULTS,
\* no step replaces or modifies it; only the confirmed quit, which ends the
\* session, clears it.
C11_StoryDataSetOnce ==
    [][(storyData # Null /\ appState \in {"READING", "QUIZ", "RESULTS"})
         => \/ storyData' = storyData
            \/ appState = "RESULTS" /\ appState' = "LOGIN" /\ storyData' = Null]_vars

----------------------------------------------------------------------------
(* Properties of the end of the quiz, checked under SpecFinish *)

\* the results of a Result[] that are correct and whose question has the type
CorrectResults(quizResults, type) ==
    {i \in DOMAIN quizResults :
        quizResults[i].isCorrect /\ quizResults[i].question.type = type}

\* the questions of the story that are CORRECT, whatever their attempt and
\* whatever score the Gateway gave
CorrectQuestions ==
    {i \in DOMAIN storyData.questions :
        StateOf(storyData.questions[i].id).status = "CORRECT"}

\* C12: when the Engine emits its Result[], the UserScore has literal,
\* inferential and evaluative equal to the number of correct results of that
\* type and total equal to their sum; the total is the number of CORRECT
\* questions, one point each whether correct at once or on the retry and
\* whatever the Gateway's score.
C12_ScoreAggregation ==
    [][finishQuiz =>
         /\ finalScores'.literal = Cardinality(CorrectResults(results', "LITERAL"))
         /\ finalScores'.inferential = Cardinality(CorrectResults(results', "INFERENTIAL"))
         /\ finalScores'.evaluative = Cardinality(CorrectResults(results', "EVALUATIVE"))
         /\ finalScores'.total = finalScores'.literal + finalScores'.inferential
                                    + finalScores'.evaluative
         /\ finalScores'.total = Cardinality(CorrectQuestions)]_vars

\* C12 witness: the Result[] was emitted for a quiz with one question correct
\* at once (Gateway score 2), one correct on the retry and one failed with a
\* Gateway score of 1, of different types: the total is 2.
C12_Witness ==
    /\ appState = "QUIZ"
    /\ results # <<>>
    /\ finalScores.total = 2
    /\ finalScores.literal = 1
    /\ finalScores.evaluative = 1
    /\ \E id \in DOMAIN statuses :
          StateOf(id).status = "CORRECT" /\ StateOf(id).attempt = 0
             /\ StateOf(id).feedback.score = 2
    /\ \E id \in DOMAIN statuses :
          StateOf(id).status = "CORRECT" /\ StateOf(id).attempt = 1
    /\ \E id \in DOMAIN statuses :
          StateOf(id).status = "FAILED_FINAL" /\ StateOf(id).feedback.score = 1

\* C13: in every state the UserScore has literal in 0..4, inferential in 0..4,
\* evaluative in 0..2 and total = literal + inferential + evaluative <= 10.
C13_ScoreBounds ==
    /\ finalScores.literal \in 0..4
    /\ finalScores.inferential \in 0..4
    /\ finalScores.evaluative \in 0..2
    /\ finalScores.total
          = finalScores.literal + finalScores.inferential + finalScores.evaluative
    /\ finalScores.total <= 10

\* the questions of a story that have the type
QuestionsOfType(story, type) ==
    {i \in DOMAIN story.questions : story.questions[i].type = type}

\* C14: the StoryData that generateAssessment returned has exactly 10
\* questions, 4 LITERAL, 4 INFERENTIAL and 2 EVALUATIVE, with pairwise
\* distinct ids.
C14_StoryComposition ==
    storyData # Null =>
       /\ Len(storyData.questions) = 10
       /\ Cardinality(QuestionsOfType(storyData, "LITERAL")) = 4
       /\ Cardinality(QuestionsOfType(storyData, "INFERENTIAL")) = 4
       /\ Cardinality(QuestionsOfType(storyData, "EVALUATIVE")) = 2
       /\ \A i, j \in DOMAIN storyData.questions :
             storyData.questions[i].id = storyData.questions[j].id => i = j

----------------------------------------------------------------------------
(* Properties of the quiz to its end, checked under SpecQuiz *)

\* C15: isAllComplete holds exactly when every question of the story is
\* CORRECT or FAILED_FINAL; the Result[] changes only in a step taken while
\* isAllComplete holds; and the Result[] that finishQuiz emits has one entry
\* per question of the story, in the order of the story.
C15_CompletionTotality ==
    /\ [](Mounted(appState, storyData) =>
             (isAllComplete(storyData, statuses)
                 <=> \A i \in DOMAIN storyData.questions :
                        StateOf(storyData.questions[i].id).status \in Terminal))
    /\ [][results' # results =>
             /\ Mounted(appState, storyData)
             /\ \A i \in DOMAIN storyData.questions :
                   StateOf(storyData.questions[i].id).status \in Terminal]_vars
    /\ [][finishQuiz =>
             /\ Len(results') = Len(storyData.questions)
             /\ \A i \in DOMAIN storyData.questions :
                   results'[i].question = storyData.questions[i]]_vars

\* C15 witness: the Result[] was emitted for the two questions, in their
\* order, one of them correct and the other failed.
C15_Witness ==
    /\ appState = "QUIZ"
    /\ Len(results) = MaxQuestions
    /\ \A i \in DOMAIN results : results[i].question.id = i
    /\ \E id \in QuestionIds : StateOf(id).status = "CORRECT"
    /\ \E id \in QuestionIds : StateOf(id).status = "FAILED_FINAL"

\* what evaluateAnswer can resolve to
GatewayResults ==
    {evaluateAnswer(gatewayModule, resp) : resp \in EvalResponses} \ {Rejected}

\* question id becomes FAILED_FINAL in this step
FailedNow(id) == ResultApplied(id) /\ StateOfNext(id).status = "FAILED_FINAL"

\* the entry of question id in the submission in flight
EntryOf(id) == CHOOSE k \in DOMAIN batches[1].entries : batches[1].entries[k].id = id

\* C16: what the running submission holds for a question it has gone through
\* is the result of its Gateway call (for a blank retry, of the call made in
\* the loop); the feedback of a question that becomes FAILED_FINAL is the
\* result of the Gateway call this submission made for it, whether it settled
\* in this step or earlier; a FAILED_FINAL question keeps a Gateway result;
\* and in the Result[] that finishQuiz emits, isCorrect is true exactly for
\* the CORRECT questions and the correctAnswer of a FAILED_FINAL question is
\* the correctAnswer of that feedback.
C16_ResultCarriesGatewayAnswer ==
    /\ [](\A b \in DOMAIN batches : \A k \in DOMAIN batches[b].entries :
             LET e == batches[b].entries[k]
             IN /\ (e.calls # <<>> /\ e.result # Pending /\ ~BlankRetryEntry(batches[b], e))
                      => e.result \in GatewayResults
                /\ k < batches[b].i =>
                      IF BlankRetryEntry(batches[b], e)
                      THEN batches[b].newFeedbacks[e.id] \in GatewayResults
                      ELSE batches[b].newFeedbacks[e.id] = e.result)
    /\ [](\A id \in QuestionIds :
             StateOf(id).status = "FAILED_FINAL" => StateOf(id).feedback \in GatewayResults)
    /\ [][\A id \in QuestionIds :
            FailedNow(id) =>
               /\ batches # <<>>
               /\ LET B == batches[1]
                      k == EntryOf(id)
                  IN IF k < B.i
                     THEN StateOfNext(id).feedback = B.newFeedbacks[id]
                     ELSE IF B.pc = "awaitForce" /\ k = B.i
                     THEN \E resp \in EvalResponses :
                             /\ forcedCallSettles(1, resp)
                             /\ StateOfNext(id).feedback = evaluateAnswer(gatewayModule, resp)
                     ELSE IF B.entries[k].result # Pending
                     THEN /\ B.entries[k].calls # <<>>
                          /\ StateOfNext(id).feedback = B.entries[k].result
                     ELSE \E resp \in EvalResponses :
                             /\ evaluateSettles(1, k, resp)
                             /\ StateOfNext(id).feedback = evaluateAnswer(gatewayModule, resp)]_vars
    /\ [][finishQuiz =>
            \A i \in DOMAIN storyData.questions :
               LET st == StateOf(storyData.questions[i].id)
               IN /\ results'[i].isCorrect <=> st.status = "CORRECT"
                  /\ st.status = "FAILED_FINAL" =>
                        results'[i].correctAnswer = st.feedback.correctAnswer]_vars

\* C16 witness: the emitted Result[] has a correct entry and an entry for a
\* question left blank on its retry, which is not correct and carries the
\* correctAnswer the Gateway returned for it.
C16_Witness ==
    /\ appState = "QUIZ"
    /\ \E i \in DOMAIN results : results[i].isCorrect
    /\ \E i \in DOMAIN results :
          /\ ~results[i].isCorrect
          /\ results[i].userAnswer = " "
          /\ results[i].correctAnswer = "modele"
          /\ StateOf(results[i].question.id).status = "FAILED_FINAL"

----------------------------------------------------------------------------
(* Properties of the final feedback and of quit, checked under SpecFinish *)

\* C17: when the request of generateFinalFeedback fails, the call does not
\* reject: it resolves to the default encouragement, which becomes the final
\* feedback.
C17_FinalFeedbackDefault ==
    [][\A resp \in FinalResponses :
          (finalFeedbackSettles(resp) /\ resp.kind = "transport_error")
          => /\ generateFinalFeedback(gatewayModule, resp) = Resolved(DefaultEncouragement)
             /\ finalFeedback' = DefaultEncouragement]_vars

\* C18: once the Result[] has been emitted in QUIZ (the final feedback has
\* been asked for), the session eventually is in RESULTS.
C18_ResultsEventually ==
    (appState = "QUIZ" /\ finishing > 0) ~> (appState = "RESULTS")

\* C19: a generateFinalFeedback request is issued only in a step that has
\* aggregated the UserScore from the emitted Result[], and that step does not
\* show RESULTS; appState becomes RESULTS only in a step in which a request
\* issued earlier settles, and that step leaves the UserScore as aggregated.
C19_FeedbackBetweenScoreAndResults ==
    /\ [][finishing' > finishing =>
            /\ Len(results') = Len(storyData.questions)
            /\ finalScores' = scoresOf(results')
            /\ appState' = appState]_vars
    /\ [][(appState # "RESULTS" /\ appState' = "RESULTS") =>
            /\ finishing > 0
            /\ finishing' = finishing - 1
            /\ finalScores' = finalScores
            /\ results' = results]_vars

\* C19 witness: RESULTS is shown with the feedback of the one request that
\* was issued, and the UserScore is the one aggregated from the Result[].
C19_Witness ==
    /\ appState = "RESULTS"
    /\ finishing = 0
    /\ finalFeedback = "Bravo, continue"
    /\ results # <<>>
    /\ finalScores = scoresOf(results)
    /\ finalScores.total > 0

\* C20: a confirmed quit sets appState to LOGIN, both names to "", storyData
\* to null and results to the empty list in one step; an unconfirmed quit
\* changes no state of the Orchestrator or of the Engine.
C20_QuitClearsSession ==
    [][\A confirmed \in BOOLEAN :
          handleQuit(confirmed) =>
             IF confirmed
             THEN /\ appState = "RESULTS"
                  /\ appState' = "LOGIN"
                  /\ userInfo' = [firstName |-> "", lastName |-> ""]
                  /\ storyData' = Null
                  /\ results' = <<>>
             ELSE UNCHANGED <<orchVars, asyncVars, engineVars>>]_vars

\* C20 witness: the pupil has quit after the results were shown: the session
\* is in LOGIN with empty names, no story and no results, and the feedback of
\* the session that ended was received.
C20_Witness ==
    /\ appState = "LOGIN"
    /\ userInfo = EmptyUser
    /\ storyData = Null
    /\ results = <<>>
    /\ finalFeedback # ""
    /\ finishing = 0

----------------------------------------------------------------------------
(* Properties of the session, checked under Spec (continued) *)

\* C21: outside LOGIN both names are non-empty after trimming, and no step
\* taken outside LOGIN changes firstName or lastName except the confirmed
\* quit.
C21_UserInfoImmutable ==
    /\ [](appState # "LOGIN" => validLogin(userInfo))
    /\ [][(appState # "LOGIN" /\ userInfo' # userInfo)
            => /\ appState = "RESULTS"
               /\ appState' = "LOGIN"
               /\ userInfo' = EmptyUser]_vars

----------------------------------------------------------------------------
(* Properties of the Gateway's sanitization, checked under SpecSanitize *)

\* the texts of the hedging set: "je ne peux pas repondre" and the statement
\* that text and question were not provided, in any case
RefusalTexts ==
    { "Je ne peux pas repondre", "je ne peux pas repondre",
      "Le texte et la question ne sont pas fournis",
      "le texte et la question ne sont pas fournis" }

\* C22: no correctAnswer in a feedback of the Engine, in what a running
\* submission holds, or in an emitted Result is a text of the hedging set;
\* when the model's correctAnswer is one, evaluateAnswer returns "" for it.
C22_NoRefusalShown ==
    /\ [](\A id \in QuestionIds :
             StateOf(id).feedback # Null =>
                StateOf(id).feedback.correctAnswer \notin RefusalTexts)
    /\ [](\A b \in DOMAIN batches : \A k \in DOMAIN batches[b].entries :
             batches[b].entries[k].result # Pending =>
                batches[b].entries[k].result.correctAnswer \notin RefusalTexts)
    /\ [](\A i \in DOMAIN results : results[i].correctAnswer \notin RefusalTexts)
    /\ [][\A k \in QuestionIds, resp \in RefusalResponses :
            (evaluateSettles(1, k, resp) /\ resp.correctAnswer \in RefusalTexts)
            => evaluateAnswer(gatewayModule, resp).correctAnswer = ""]_vars

----------------------------------------------------------------------------
(* Properties of the session, checked under Spec (continued) *)

\* C23: when the response to generateAssessment parses and its content is
\* empty or whitespace-only, the story that is stored has a non-empty content
\* and the session goes to READING; generateAssessment rejects only for a
\* transport error or a text that does not parse.
C23_EmptyContentSentinel ==
    /\ [][\A resp \in AssessResponses :
            (assessmentSettles(resp) /\ resp.kind = "json" /\ Trim(resp.data.content) = "")
            => /\ storyData' # Null
               /\ Trim(storyData'.content) # ""
               /\ appState' = "READING"]_vars
    /\ [][\A resp \in AssessResponses :
            (assessmentSettles(resp) /\ generateAssessment(gatewayModule, resp) = Rejected)
            => resp.kind \in {"transport_error", "unparsable"}]_vars

\* C24: submitting the login form moves to SETUP exactly when firstName and
\* lastName are both non-empty after trimming; otherwise appState stays
\* LOGIN; in both cases nothing else changes.
C24_LoginGate ==
    [][handleLogin =>
         /\ appState = "LOGIN"
         /\ appState' = IF Trim(userInfo.firstName) # "" /\ Trim(userInfo.lastName) # ""
                        THEN "SETUP" ELSE "LOGIN"
         /\ UNCHANGED <<userInfo, storyData, results, finalFeedback, finalScores,
                        asyncVars, engineVars>>]_vars

\* C24 witness: the form was submitted with two names and the session is in
\* SETUP, with nothing else started.
C24_Witness ==
    /\ appState = "SETUP"
    /\ userInfo = [firstName |-> "Amine", lastName |-> "Amine"]
    /\ storyData = Null
    /\ readers = 0
    /\ assessing = 0
    /\ finishing = 0

\* the session enters QUIZ in this step
EntersQuiz == ~Mounted(appState, storyData) /\ Mounted(appState', storyData')

\* C25: in every step that enters QUIZ the Engine starts fresh: its maps are
\* empty, so every question of the story is IDLE with attempt 0, an empty
\* answer and no feedback, no submission is running and the lock is free;
\* outside QUIZ no Engine state exists.
C25_EngineStartsFresh ==
    /\ [][EntersQuiz =>
            /\ \A i \in DOMAIN storyData'.questions :
                  StateOfNext(storyData'.questions[i].id)
                     = [answer |-> "", status |-> "IDLE", feedback |-> Null, attempt |-> 0]
            /\ answers' = EmptyMap /\ statuses' = EmptyMap
            /\ feedbacks' = EmptyMap /\ attempts' = EmptyMap
            /\ batches' = <<>>
            /\ ~isEvaluating']_vars
    /\ [](~Mounted(appState, storyData) =>
             /\ answers = EmptyMap /\ statuses = EmptyMap
             /\ feedbacks = EmptyMap /\ attempts = EmptyMap
             /\ batches = <<>>)

\* C25 witness: a session has ended before (its final feedback is still
\* there) and the session is in QUIZ again, with a fresh Engine.
C25_Witness ==
    /\ appState = "QUIZ"
    /\ storyData # Null
    /\ finalFeedback # ""
    /\ validLogin(userInfo)
    /\ statuses = EmptyMap
    /\ answers = EmptyMap
    /\ readers + assessing + finishing = 0

----------------------------------------------------------------------------
(* Properties of the Question Engine, checked under SpecEngine (continued) *)

\* the Gateway calls of a submission that have not settled
PendingCalls(batch) ==
    Cardinality({k \in DOMAIN batch.entries : batch.entries[k].result = Pending})
       + (IF batch.pc = "awaitForce" THEN 1 ELSE 0)

\* the questions of the story that are not finished
OpenQuestions == {id \in QuestionIds : StateOf(id).status \notin Terminal}

\* C26: while a submission is running, statuses, feedbacks and attempts are
\* the ones it started with; a step that writes any of them ends the
\* submission with its last call settling in that step, and applies a result
\* to every question of the batch at once; and for each question the status,
\* the feedback and the attempt written belong to one result.
C26_BatchAtomicity ==
    /\ [](\A b \in DOMAIN batches :
             /\ statuses = batches[b].statuses
             /\ feedbacks = batches[b].feedbacks
             /\ attempts = batches[b].attempts)
    /\ [][<<statuses, feedbacks, attempts>>' # <<statuses, feedbacks, attempts>> =>
            /\ batches' = <<>>
            /\ ~isEvaluating'
            /\ batches # <<>> => PendingCalls(batches[1]) = 1
            /\ \A id \in OpenQuestions : ResultApplied(id)
            /\ \A id \in QuestionIds :
                  ResultApplied(id) =>
                     LET isRetry == StateOf(id).attempt > 0
                         fb == StateOfNext(id).feedback
                     IN /\ fb # Null
                        /\ StateOfNext(id).status
                              = (IF fb.isCorrect THEN "CORRECT"
                                 ELSE IF isRetry THEN "FAILED_FINAL" ELSE "INCORRECT_RETRY")
                        /\ StateOfNext(id).attempt
                              = StateOf(id).attempt + (IF fb.isCorrect THEN 0 ELSE 1)]_vars
    /\ [](DOMAIN statuses = DOMAIN feedbacks /\ DOMAIN attempts \subseteq DOMAIN statuses)

\* C26 witness: a submission of two questions has been applied: one question
\* is correct at once and the other, left blank, waits for its retry; no
\* submission is running.
C26_Witness ==
    /\ batches = <<>>
    /\ ~isEvaluating
    /\ lastAlert = ""
    /\ \E id \in QuestionIds :
          StateOf(id).status = "CORRECT" /\ StateOf(id).attempt = 0
    /\ \E id \in QuestionIds :
          /\ StateOf(id).status = "INCORRECT_RETRY"
          /\ StateOf(id).feedback.isIncomplete
          /\ StateOf(id).answer = ""

\* the calls of the Promise.all that have not settled, and the orders they
\* can settle in
PendingOf(batch) == {k \in DOMAIN batch.entries : batch.entries[k].result = Pending}
Orders(ks) ==
    {o \in [1..Cardinality(ks) -> ks] : \A i, j \in DOMAIN o : i # j => o[i] # o[j]}

\* what a submission leaves in the Engine: the three maps and the alert
RejectedOutcome(batch) ==
    [statuses |-> batch.statuses, feedbacks |-> batch.feedbacks,
     attempts |-> batch.attempts,
     alert |-> "Une erreur est survenue lors de la validation."]
AppliedOutcome(batch) ==
    [statuses |-> batch.newStatuses, feedbacks |-> batch.newFeedbacks,
     attempts |-> batch.newAttempts, alert |-> ""]
EngineOutcome ==
    [statuses |-> statuses, feedbacks |-> feedbacks, attempts |-> attempts,
     alert |-> lastAlert]
EngineOutcomeNext ==
    [statuses |-> statuses', feedbacks |-> feedbacks', attempts |-> attempts',
     alert |-> lastAlert']

\* the handler from the end of the Promise.all on, when the Gateway answers
\* the call made for entry k with res[k]
RECURSIVE OutcomeOfLoop(_, _)
OutcomeOfLoop(batch, res) ==
    IF batch.pc = "done"
    THEN AppliedOutcome(batch)
    ELSE LET e == batch.entries[batch.i]
             r == evaluateAnswer(gatewayModule, res[batch.i])
         IN IF r = Rejected
            THEN RejectedOutcome(batch)
            ELSE OutcomeOfLoop(runLoop(applyResult(batch, e.id, r, e.isRetry)), res)

\* the handler when the pending calls of its Promise.all settle in the given
\* order
RECURSIVE OutcomeIn(_, _, _)
OutcomeIn(batch, order, res) ==
    IF order = <<>>
    THEN OutcomeOfLoop(batch, res)
    ELSE LET k == Head(order)
             r == evaluateAnswer(gatewayModule, res[k])
         IN IF r = Rejected
            THEN RejectedOutcome(batch)
            ELSE OutcomeIn(afterSettled(settle(batch, k, r)), Tail(order), res)

\* the entries of the submission whose Gateway call has not settled: those
\* pending in the Promise.all and those the loop will ask for
CallsLeft(batch) ==
    PendingOf(batch)
       \cup {k \in DOMAIN batch.entries :
                k >= batch.i /\ BlankRetryEntry(batch, batch.entries[k])}

\* one step of the handler: the call of entry k settles with result r
StepIsSettle(k, r) ==
    IF r = Rejected
    THEN batches' = <<>> /\ EngineOutcomeNext = RejectedOutcome(batches[1])
    ELSE LET batch == afterSettled(settle(batches[1], k, r))
         IN IF batch.pc = "done"
            THEN batches' = <<>> /\ EngineOutcomeNext = AppliedOutcome(batch)
            ELSE batches' = <<batch>> /\ EngineOutcomeNext = EngineOutcome

\* one step of the handler: the call awaited in the loop settles with result r
StepIsForced(r) ==
    IF r = Rejected
    THEN batches' = <<>> /\ EngineOutcomeNext = RejectedOutcome(batches[1])
    ELSE LET e == batches[1].entries[batches[1].i]
             batch == runLoop(applyResult(batches[1], e.id, r, e.isRetry))
         IN IF batch.pc = "done"
            THEN batches' = <<>> /\ EngineOutcomeNext = AppliedOutcome(batch)
            ELSE batches' = <<batch>> /\ EngineOutcomeNext = EngineOutcome

\* C27: for the submission in flight and every assignment of a Gateway
\* response to each call it still waits for, the maps and the alert the
\* handler leaves are the same for every order in which the pending calls
\* settle; and every step in which a call settles is one step of that
\* handler, whose outcome is what the Engine holds when the submission ends.
C27_OrderIndependence ==
    /\ [](Len(batches) <= 1)
    /\ [](\A b \in DOMAIN batches :
            LET os == Orders(PendingOf(batches[b]))
                first == CHOOSE o \in os : TRUE
            IN Cardinality(os) > 1 =>
                 \A res \in [CallsLeft(batches[b]) -> EvalResponses] :
                    LET outcome == OutcomeIn(batches[b], first, res)
                    IN \A o \in os : OutcomeIn(batches[b], o, res) = outcome)
    /\ [][(batches # <<>> /\ batches' # batches) =>
            /\ \A k \in PendingOf(batches[1]), resp \in EvalResponses :
                  evaluateSettles(1, k, resp) =>
                     StepIsSettle(k, evaluateAnswer(gatewayModule, resp))
            /\ \A resp \in EvalResponses :
                  forcedCallSettles(1, resp) =>
                     StepIsForced(evaluateAnswer(gatewayModule, resp))
            /\ \/ \E k \in PendingOf(batches[1]), resp \in EvalResponses :
                     evaluateSettles(1, k, resp)
               \/ \E resp \in EvalResponses : forcedCallSettles(1, resp)]_vars

\* C27 witness: of two calls in flight the later one has resolved first, with
\* a correct result, and the earlier one is still pending.
C27_Witness ==
    /\ Len(batches) = 1
    /\ batches[1].pc = "awaitAll"
    /\ Len(batches[1].entries) >= 2
    /\ batches[1].entries[1].result = Pending
    /\ batches[1].entries[2].result # Pending
    /\ batches[1].entries[2].calls # <<>>
    /\ batches[1].entries[2].result.isCorrect

\* QuestionEngine.tsx:148-192: the handler of a running submission waits for
\* a call: one of its Promise.all or the one made in the loop
CallAwaited(batch) ==
    \/ batch.pc = "awaitAll" /\ PendingOf(batch) # {}
    \/ batch.pc = "awaitForce" /\ batch.i \in DOMAIN batch.entries

\* QuestionEngine.tsx:274-290: the submit button is rendered and enabled
SubmitOffered ==
    /\ Mounted(appState, storyData)
    /\ ~isAllComplete(storyData, statuses)
    /\ submitEnabled(isEvaluating)

\* the handler of the submission in flight returns in this step
SubmissionEnds == EngineStays /\ batches # <<>> /\ batches' = <<>>

\* C28: isEvaluating holds exactly while a submission is running: every step
\* in which the handler returns, with its results applied or rejected, leaves
\* isEvaluating false, and so does a submit that ends at once; a running
\* submission always waits for a call whose settling moves it on; and after
\* a rejected batch the submit button is offered again.
C28_LockReleased ==
    /\ [](isEvaluating <=> batches # <<>>)
    /\ [](\A b \in DOMAIN batches : CallAwaited(batches[b]))
    /\ [][SubmissionEnds => ~isEvaluating']_vars
    /\ [][(batches # <<>> /\ batches' # batches /\ SubmissionRejects) =>
            /\ SubmissionEnds
            /\ ~isEvaluating'
            /\ lastAlert' = "Une erreur est survenue lors de la validation."
            /\ SubmitOffered']_vars
    /\ [][SubmitStep => (isEvaluating' <=> batches' # <<>>)]_vars
    /\ [](lastAlert = "Une erreur est survenue lors de la validation." =>
            ~isEvaluating /\ SubmitOffered)

\* C28 witness: a batch of first answers has been rejected: nothing was
\* applied, the alert is up, the lock is free and the pupil can submit again.
C28_Witness ==
    /\ lastAlert = "Une erreur est survenue lors de la validation."
    /\ ~isEvaluating
    /\ batches = <<>>
    /\ ENABLED handleGlobalSubmit
    /\ \A id \in QuestionIds : StateOf(id).status = "IDLE" /\ StateOf(id).answer = "a"

\* C29: in every state of the Engine and for every question: IDLE goes with
\* attempt 0 and no feedback; INCORRECT_RETRY with attempt 1 and a feedback
\* that is not correct; FAILED_FINAL with attempt 2; CORRECT with attempt 0
\* or 1 and a feedback that is correct.
C29_StatusAttemptCoupling ==
    \A id \in QuestionIds :
       LET st == StateOf(id)
       IN /\ st.status = "IDLE" => st.attempt = 0 /\ st.feedback = Null
          /\ st.status = "INCORRECT_RETRY" =>
                st.attempt = 1 /\ st.feedback # Null /\ ~st.feedback.isCorrect
          /\ st.status = "FAILED_FINAL" => st.attempt = 2
          /\ st.status = "CORRECT" =>
                st.attempt \in {0, 1} /\ st.feedback # Null /\ st.feedback.isCorrect

\* C29 witness: after two applied submissions one question has failed twice
\* and the other was corrected on the retry.
C29_Witness ==
    /\ batches = <<>>
    /\ \E id \in QuestionIds :
          /\ StateOf(id).status = "FAILED_FINAL"
          /\ StateOf(id).attempt = 2
          /\ ~StateOf(id).feedback.isCorrect
    /\ \E id \in QuestionIds :
          /\ StateOf(id).status = "CORRECT"
          /\ StateOf(id).attempt = 1
          /\ StateOf(id).feedback.isCorrect

\* the questions a running submission evaluates
BatchQuestions(batch) == {batch.entries[k].id : k \in DOMAIN batch.entries}

\* a submission is applied in this step: the handler returns without the alert
SubmissionApplied ==
    \/ CommitStep
    \/ SubmitStep /\ batches' = <<>>

\* C30: a running submission holds exactly the questions that are not
\* terminal, and a submit that ends at once applies a result to each of them;
\* so the open questions move together: before the first applied submission
\* all questions are IDLE and after it none is, and a submission applied when
\* no question is IDLE leaves every question terminal, isAllComplete true and
\* no further submit possible; no submission holds a question with attempt 2.
C30_BoundedCompletion ==
    /\ [](\A b \in DOMAIN batches : BatchQuestions(batches[b]) = OpenQuestions)
    /\ [](\A b \in DOMAIN batches : \A k \in DOMAIN batches[b].entries :
             MapGet(batches[b].attempts, batches[b].entries[k].id, 0) < 2)
    /\ []((\A id \in QuestionIds : StateOf(id).status = "IDLE")
            \/ (\A id \in QuestionIds : StateOf(id).status # "IDLE"))
    /\ [][SubmissionApplied =>
            /\ \A id \in OpenQuestions : ResultApplied(id)
            /\ \A id \in QuestionIds : StateOfNext(id).status # "IDLE"
            /\ (\A id \in QuestionIds : StateOf(id).status # "IDLE") =>
                  /\ \A id \in QuestionIds : StateOfNext(id).status \in Terminal
                  /\ isAllComplete(storyData', statuses')]_vars
    /\ [](isAllComplete(storyData, statuses) =>
            /\ OpenQuestions = {}
            /\ batches = <<>>
            /\ ~ENABLED handleGlobalSubmit)

\* C30 witness: every question is finished after two applied submissions in
\* which the pupil never wrote anything: both questions failed twice and the
\* submit control is gone.
C30_Witness ==
    /\ isAllComplete(storyData, statuses)
    /\ batches = <<>>
    /\ ~ENABLED handleGlobalSubmit
    /\ \A id \in QuestionIds :
          /\ StateOf(id).status = "FAILED_FINAL"
          /\ StateOf(id).attempt = 2
          /\ StateOf(id).answer = ""

\* C31: a result applied to a question whose evaluated answer was empty or
\* whitespace never moves the question to CORRECT, on the first attempt or on
\* the retry, whatever the Gateway returned.
C31_BlankNeverCorrect ==
    [][\A id \in QuestionIds :
          (ResultApplied(id) /\ Trim(EvaluatedAnswer(id)) = "")
             => StateOfNext(id).status # "CORRECT"]_vars

----------------------------------------------------------------------------
(* Properties of the answers map, checked under SpecQuiz and SpecEngine *)

\* C32: when a result makes a question terminal, the answer the Engine holds
\* for it is the text the submission evaluated; the answer of a terminal
\* question never changes; and the userAnswer of each Result that finishQuiz
\* emits is the answer the Engine holds: so the emitted userAnswer is the
\* text evaluated by the submission that finished the question.
C32_UserAnswerIsEvaluatedAnswer ==
    /\ [][\A id \in QuestionIds :
            (ResultApplied(id) /\ StateOfNext(id).status \in Terminal)
               => StateOfNext(id).answer = EvaluatedAnswer(id)]_vars
    /\ [][\A id \in QuestionIds :
            (EngineStays /\ StateOf(id).status \in Terminal)
               => StateOfNext(id).answer = StateOf(id).answer]_vars
    /\ [][finishQuiz =>
            \A i \in DOMAIN storyData.questions :
               results'[i].userAnswer
                  = MapGet(answers, storyData.questions[i].id, Undefined)]_vars

\* C33: the answers map is written by no step of a submission: the submit,
\* the settling of a call and the writing of the results leave it as it is,
\* and applying the results leaves the Orchestrator's state as it is too; a
\* submission that starts takes the answers map of that moment, and the call
\* it makes for a question that is not a blank retry carries the answer held
\* then.
C33_SubmissionKeepsAnswers ==
    /\ [][(SubmitStep \/ batches' # batches
             \/ <<statuses, feedbacks, attempts>>' # <<statuses, feedbacks, attempts>>)
            => answers' = answers]_vars
    /\ [][SubmissionApplied => UNCHANGED <<answers, orchVars>>]_vars
    /\ [][(SubmitStep /\ batches' # <<>>) => batches'[1].answers = answers]_vars
    /\ [](\A b \in DOMAIN batches : \A k \in DOMAIN batches[b].entries :
             LET e == batches[b].entries[k]
             IN (e.calls # <<>> /\ ~BlankRetryEntry(batches[b], e))
                   => e.calls[1] = MapGet(batches[b].answers, e.id, ""))

\* C33 witness: a question was left empty in the first submission (its
\* feedback is the local one) and the retry submission now in flight sends
\* the Gateway the text "a" written since.
C33_Witness ==
    /\ Len(batches) = 1
    /\ \E k \in DOMAIN batches[1].entries :
          LET e == batches[1].entries[k]
          IN /\ e.isRetry
             /\ e.calls = <<"a">>
             /\ StateOf(e.id).status = "INCORRECT_RETRY"
             /\ StateOf(e.id).feedback.isIncomplete
             /\ MapGet(batches[1].answers, e.id, "") = "a"

----------------------------------------------------------------------------
(* Properties of the session, checked under Spec (continued) *)

\* C34: at most one generateAssessment request is in flight; a request is
\* started only when none is in flight; and the resolution or rejection of a
\* request is handled only while appState is LOADING_STORY.
C34_OneAssessmentInFlight ==
    /\ [](assessing <= 1)
    /\ [][startAssessment => assessing = 0]_vars
    /\ [][\A resp \in AssessResponses :
            assessmentSettles(resp) => appState = "LOADING_STORY"]_vars

----------------------------------------------------------------------------
(* Properties of the end of the session, checked under SpecFinish (continued) *)

\* C35: a confirmed quit leaves the Orchestrator in its initial state: LOGIN,
\* empty names, no story, no results, a final score of all zeros and an empty
\* final feedback.
C35_QuitRestoresInitialState ==
    [][handleQuit(TRUE) =>
          /\ appState' = "LOGIN"
          /\ userInfo' = EmptyUser
          /\ storyData' = Null
          /\ results' = <<>>
          /\ finalScores' = ZeroScores
          /\ finalFeedback' = ""]_vars

====
